---- MODULE Spec2Model ----
(***************************************************************************)
(* OverlandListener (src/app.py): a FastAPI service whose POST /api/input  *)
(* handler authenticates a request, validates its JSON body and persists   *)
(* the parsed payload as one record, on the local filesystem or in S3.     *)
(*                                                                         *)
(* Text is modelled at two grains.  The query token, the Authorization     *)
(* header and the two secrets are sequences of one-character strings, so   *)
(* that str.strip() and exact comparison are computed.  Payload bytes and  *)
(* file names are TLA+ strings built with \o as the f-strings build them.  *)
(* A storage key is the sequence of its "/"-separated segments.            *)
(* An optional value (os.getenv, dict.get) is <<>> for None and <<v>> for  *)
(* a present value v.                                                      *)
(***************************************************************************)
EXTENDS Integers, Sequences, FiniteSets, TLC

VARIABLES cfg, phase, hc, now, store, dirs, req

vars == <<cfg, phase, hc, now, store, dirs, req>>

\* ---------------------------------------------------------------- bounds
\* Request slots: the handler invocations of one run of the process.
MaxReq == 2
\* The clock reads 0..MaxMs milliseconds.
MaxMs == 1

Slots == 1..MaxReq

\* ------------------------------------------------------- optional values
None == <<>>
Some(v) == <<v>>
\* Python's `x or ""` on an optional string.
OrEmpty(o) == IF o = None THEN <<>> ELSE o[1]
\* Python truthiness of an optional string: None and "" are falsy.
Truthy(o) == o # None /\ o[1] # <<>>

\* ------------------------------------------------------------ characters
Whitespace == {" ", "\t"}

MinOf(S) == CHOOSE x \in S : \A y \in S : x <= y
MaxOf(S) == CHOOSE x \in S : \A y \in S : x >= y

\* str.strip(): drop leading and trailing whitespace, keep inner whitespace.
Strip(s) ==
    LET keep == {i \in 1..Len(s) : s[i] \notin Whitespace}
    IN  IF keep = {} THEN <<>> ELSE SubSeq(s, MinOf(keep), MaxOf(keep))

Bearer == <<"B", "e", "a", "r", "e", "r", " ">>

\* The two secrets used by the configurations of the model.
TokenText == <<"t", "k">>
SecretText == <<"s">>

\* --------------------------------------------------------- configuration
\* app.py:7-13, as read from the environment when the module is imported.
\* STORAGE_BACKEND is already stripped and lower-cased, S3_PREFIX already
\* stripped of whitespace and of "/" at both ends.
Backends == {"filesystem", "s3"}

Configs ==
    { c \in [ STORAGE_BACKEND : Backends,
              S3_BUCKET : {None, Some("bucket")},
              S3_PREFIX : {"", "pfx"},
              TOKEN : {None, Some(<<>>), Some(TokenText)},
              AUTH_SECRET : {None, Some(<<>>), Some(SecretText)} ] :
        \* the S3 settings are read only by the s3 backend
        /\ c.STORAGE_BACKEND = "filesystem" => (c.S3_BUCKET = None /\ c.S3_PREFIX = "")
        /\ c.S3_BUCKET = None => c.S3_PREFIX = "" }

\* `not S3_BUCKET`
BucketUnset == cfg.S3_BUCKET = None \/ cfg.S3_BUCKET[1] = ""

\* ------------------------------------------------------------------ JSON
\* A parsed JSON value.  t is the Python type json.loads gives it; s is the
\* lexeme of a number or the text of a string; lone says that a string holds
\* a lone surrogate (json.loads accepts the escape \ud800); keys and kids are
\* the members of an object in order, kids alone the items of an array.
JNull == [t |-> "null", s |-> "", lone |-> FALSE, keys |-> <<>>, kids |-> <<>>]
JNum(lex) == [t |-> "num", s |-> lex, lone |-> FALSE, keys |-> <<>>, kids |-> <<>>]
JStr(text) == [t |-> "str", s |-> text, lone |-> FALSE, keys |-> <<>>, kids |-> <<>>]
JLoneSurrogate == [t |-> "str", s |-> "<U+D800>", lone |-> TRUE, keys |-> <<>>, kids |-> <<>>]
JArr(items) == [t |-> "list", s |-> "", lone |-> FALSE, keys |-> <<>>, kids |-> items]
JObj(ks, vs) == [t |-> "dict", s |-> "", lone |-> FALSE, keys |-> ks, kids |-> vs]

\* The request bodies of the model, as sent on the wire.
BodyTruncated == "{\"locations\":"
BodyArray == "[{\"locations\":[]}]"
BodyNull == "null"
BodyNoLocations == "{\"foo\":\"bar\"}"
BodyEmptyList == "{\"locations\":[]}"
BodySpaced == "{ \"locations\": [ 19051 ] }"
BodyTwin == "{\"locations\":[40928]}"
BodySurrogate == "{\"locations\":\"\\ud800\"}"

AllBodies ==
    { BodyTruncated, BodyArray, BodyNull, BodyNoLocations,
      BodyEmptyList, BodySpaced, BodyTwin, BodySurrogate }

\* `await request.json()`: json.loads of the body.  ok = FALSE is the
\* JSONDecodeError it raises.
JsonParse(raw) ==
    CASE raw = BodyArray ->
           [ok |-> TRUE, value |-> JArr(<<JObj(<<"locations">>, <<JArr(<<>>)>>)>>)]
      [] raw = BodyNull -> [ok |-> TRUE, value |-> JNull]
      [] raw = BodyNoLocations ->
           [ok |-> TRUE, value |-> JObj(<<"foo">>, <<JStr("bar")>>)]
      [] raw = BodyEmptyList ->
           [ok |-> TRUE, value |-> JObj(<<"locations">>, <<JArr(<<>>)>>)]
      [] raw = BodySpaced ->
           [ok |-> TRUE, value |-> JObj(<<"locations">>, <<JArr(<<JNum("19051")>>)>>)]
      [] raw = BodyTwin ->
           [ok |-> TRUE, value |-> JObj(<<"locations">>, <<JArr(<<JNum("40928")>>)>>)]
      [] raw = BodySurrogate ->
           [ok |-> TRUE, value |-> JObj(<<"locations">>, <<JLoneSurrogate>>)]
      [] OTHER -> [ok |-> FALSE, value |-> JNull]

RECURSIVE JoinWith(_, _)
JoinWith(parts, sep) ==
    IF parts = <<>> THEN ""
    ELSE IF Len(parts) = 1 THEN parts[1]
    ELSE parts[1] \o sep \o JoinWith(Tail(parts), sep)

\* json.dumps(d, separators=(",", ":"), ensure_ascii=False)
RECURSIVE compact_json(_)
compact_json(d) ==
    CASE d.t = "null" -> "null"
      [] d.t = "num" -> d.s
      [] d.t = "str" -> "\"" \o d.s \o "\""
      [] d.t = "list" ->
           "[" \o JoinWith([i \in 1..Len(d.kids) |-> compact_json(d.kids[i])], ",") \o "]"
      [] d.t = "dict" ->
           "{" \o JoinWith([i \in 1..Len(d.kids) |->
                              "\"" \o d.keys[i] \o "\":" \o compact_json(d.kids[i])], ",")
               \o "}"

\* str.encode("utf-8") raises UnicodeEncodeError on a lone surrogate, which
\* ensure_ascii=False leaves in the text.
RECURSIVE HasLoneSurrogate(_)
HasLoneSurrogate(d) ==
    d.lone \/ \E i \in 1..Len(d.kids) : HasLoneSurrogate(d.kids[i])

\* hashlib.sha256(bytes).hexdigest()[:8], tabulated on the serializations of
\* the model's JSON objects (the values are the real digests' first 8 digits;
\* the second and third are a real collision of the 32-bit prefix).
Sha256Hex8(bytes) ==
    CASE bytes = "{\"locations\":[]}" -> "9323a534"
      [] bytes = "{\"locations\":[19051]}" -> "d8e23a55"
      [] bytes = "{\"locations\":[40928]}" -> "d8e23a55"
      [] bytes = "{\"foo\":\"bar\"}" -> "7a38bf81"

\* ---------------------------------------------------------------- naming
\* make_name with the digest left out of the name.
make_name_no_digest(payload, now_ms) ==
    IF HasLoneSurrogate(payload)
    THEN [ok |-> FALSE, name |-> ""]
    ELSE [ok |-> TRUE, name |-> ToString(now_ms) \o ".json"]

\* make_name, app.py:51-54, at clock reading now_ms.  ok = FALSE is the
\* UnicodeEncodeError of .encode("utf-8").
make_name(payload, now_ms) ==
    IF HasLoneSurrogate(payload)
    THEN [ok |-> FALSE, name |-> ""]
    ELSE [ok |-> TRUE,
          name |-> ToString(now_ms) \o "-" \o Sha256Hex8(compact_json(payload)) \o ".json"]

\* s3_key_for, app.py:66-68: "requests/" + name, under S3_PREFIX when set.
s3_key_for(name) ==
    LET base == <<"requests", name>>
    IN  IF cfg.S3_PREFIX # "" THEN <<cfg.S3_PREFIX>> \o base ELSE base

\* LOG_DIR / "requests" / name, relative to LOG_DIR (app.py:58, 61).
fs_path_for(name) == <<"requests", name>>

\* --------------------------------------------------------------- storage
\* The store maps a key (an S3 key, or a path under LOG_DIR) to its bytes.
EmptyStore == [k \in {} |-> ""]
Put(st, k, bytes) == [x \in (DOMAIN st) \cup {k} |-> IF x = k THEN bytes ELSE st[x]]
Delete(st, k) == [x \in (DOMAIN st) \ {k} |-> st[x]]

\* What the environment does to one backend call sequence.
FsIo == {"ok", "mkdir_fails", "open_fails", "write_fails"}
S3Io == {"ok", "put_fails"}
IoOf(backend) == IF backend = "s3" THEN S3Io ELSE FsIo

\* The effect of one write_request call: the exception it raised ("" for
\* none), the number of writes it issued (open-for-write of the record file,
\* or put_object), the key and bytes of that write, and the store and
\* directories it leaves.
Effect(err, puts, key, bytes, st, ds) ==
    [err |-> err, puts |-> puts, key |-> key, bytes |-> bytes, store |-> st, dirs |-> ds]

\* fs_write_request, app.py:57-63.  open(.., "w") truncates the file before
\* the first byte is written, so a write that fails leaves it empty.
fs_write_request(payload, io) ==
    IF io = "mkdir_fails" THEN Effect("OSError:mkdir", 0, <<>>, "", store, dirs)
    ELSE
      LET ds == dirs \cup {<<"requests">>}
          n == make_name(payload, now)
          key == fs_path_for(n.name)
          bytes == compact_json(payload)
      IN  IF ~n.ok THEN Effect("UnicodeEncodeError", 0, <<>>, "", store, ds)
          ELSE IF io = "open_fails" THEN Effect("OSError:open", 1, key, bytes, store, ds)
          ELSE IF io = "write_fails"
               THEN Effect("OSError:write", 1, key, bytes, Put(store, key, ""), ds)
          ELSE Effect("", 1, key, bytes, Put(store, key, bytes), ds)

\* s3_write_request, app.py:71-81.  The client is built as at startup, where
\* building it succeeded; put_object stores the whole body or nothing.
s3_write_request(payload, io) ==
    LET n == make_name(payload, now)
        key == s3_key_for(n.name)
        bytes == compact_json(payload)
    IN  IF ~n.ok THEN Effect("UnicodeEncodeError", 0, <<>>, "", store, dirs)
        ELSE IF io = "put_fails" THEN Effect("ClientError:put", 1, key, bytes, store, dirs)
        ELSE Effect("", 1, key, bytes, Put(store, key, bytes), dirs)

\* write_request, app.py:84-90.
write_request(payload, io) ==
    IF cfg.STORAGE_BACKEND = "s3"
    THEN IF BucketUnset
         THEN Effect("RuntimeError:S3_BUCKET not set", 0, <<>>, "", store, dirs)
         ELSE s3_write_request(payload, io)
    ELSE fs_write_request(payload, io)

\* ---------------------------------------------------------- startup check
FsHcIo == {"ok", "mkdir_fails", "write_fails", "unlink_not_found", "unlink_fails"}
S3HcIo == {"ok", "put_fails", "delete_fails"}
HcIoOf(backend) == IF backend = "s3" THEN S3HcIo ELSE FsHcIo

ProbeBytes == "ok\n"

\* The outcome of one startup_write_check call: whether it raised, the key of
\* the probe write and of the probe removal it issued (None when it did not
\* get that far), whether each succeeded, and the store and directories left.
HcOutcome(raised, putKey, putOk, delKey, delOk, st, ds) ==
    [raised |-> raised, putKey |-> putKey, putOk |-> putOk,
     delKey |-> delKey, delOk |-> delOk, store |-> st, dirs |-> ds]

\* startup_write_check, app.py:93-128.  In the s3 branch put_object and
\* delete_object share one try block whose handler re-raises; in the
\* filesystem branch only FileNotFoundError from unlink is swallowed.
startup_write_check(io) ==
    IF cfg.STORAGE_BACKEND = "s3"
    THEN
      IF BucketUnset THEN HcOutcome(TRUE, None, FALSE, None, FALSE, store, dirs)
      ELSE
        LET key == s3_key_for("healthcheck.txt")
        IN  IF io = "put_fails"
            THEN HcOutcome(TRUE, Some(key), FALSE, None, FALSE, store, dirs)
            ELSE IF io = "delete_fails"
            THEN HcOutcome(TRUE, Some(key), TRUE, Some(key), FALSE,
                           Put(store, key, ProbeBytes), dirs)
            ELSE HcOutcome(FALSE, Some(key), TRUE, Some(key), TRUE,
                           Delete(Put(store, key, ProbeBytes), key), dirs)
    ELSE
      IF io = "mkdir_fails" THEN HcOutcome(TRUE, None, FALSE, None, FALSE, store, dirs)
      ELSE
        LET ds == dirs \cup {<<>>}
            hcPath == <<"healthcheck.txt">>
            written == Put(store, hcPath, ProbeBytes)
        IN  IF io = "write_fails"
            THEN HcOutcome(TRUE, Some(hcPath), FALSE, None, FALSE, store, ds)
            ELSE IF io = "unlink_fails"
            THEN HcOutcome(TRUE, Some(hcPath), TRUE, Some(hcPath), FALSE, written, ds)
            ELSE IF io = "unlink_not_found"
            THEN HcOutcome(FALSE, Some(hcPath), TRUE, Some(hcPath), FALSE,
                           Delete(written, hcPath), ds)
            ELSE HcOutcome(FALSE, Some(hcPath), TRUE, Some(hcPath), TRUE,
                           Delete(written, hcPath), ds)

\* on_startup with the exception of the check swallowed.
on_startup_swallowing(raised) == "serving"

\* on_startup, app.py:142-146: the phase the startup event leaves the process
\* in.  An exception from the handler aborts startup; otherwise the server
\* starts to accept requests.  (log_config only prints.)
on_startup(raised) == IF raised THEN "aborted" ELSE "serving"

\* -------------------------------------------------------- authentication
\* token_ok without the `not TOKEN` test: an empty INGEST_TOKEN is matched by
\* an empty token.
token_ok_fail_open(queryToken) ==
    LET token == Strip(OrEmpty(queryToken))
    IN  cfg.TOKEN # None /\ token = cfg.TOKEN[1]

\* app.py:173-175: `not TOKEN or token != TOKEN` is the denial.
token_ok(queryToken) ==
    LET token == Strip(OrEmpty(queryToken))
    IN  Truthy(cfg.TOKEN) /\ token = cfg.TOKEN[1]

IsPrefix(p, t) == Len(p) <= Len(t) /\ SubSeq(t, 1, Len(p)) = p

\* auth_ok comparing with startswith instead of equality.
auth_ok_prefix(header) ==
    IF Truthy(cfg.AUTH_SECRET)
    THEN LET auth == Strip(OrEmpty(header))
         IN  \/ IsPrefix(cfg.AUTH_SECRET[1], auth)
             \/ IsPrefix(Bearer \o cfg.AUTH_SECRET[1], auth)
    ELSE TRUE

\* app.py:177-180: the header is read only when AUTH_SECRET is truthy.
auth_ok(header) ==
    IF Truthy(cfg.AUTH_SECRET)
    THEN LET auth == Strip(OrEmpty(header))
         IN  auth = cfg.AUTH_SECRET[1] \/ auth = Bearer \o cfg.AUTH_SECRET[1]
    ELSE TRUE

\* payload_ok without the test for the key "locations".
payload_ok_any_dict(parsed) == parsed.ok /\ parsed.value.t = "dict"

\* app.py:182-187: the body parses, is a dict and has the key "locations".
payload_ok(parsed) ==
    /\ parsed.ok
    /\ parsed.value.t = "dict"
    /\ \E i \in 1..Len(parsed.value.keys) : parsed.value.keys[i] = "locations"

\* response_after_write with the exception caught and the request acknowledged.
response_after_write_swallowing(err) == [status |-> 200, detail |-> "{\"result\":\"ok\"}"]

\* The response to a request whose write_request raised err ("" when it
\* returned): the acknowledgment of app.py:193, or the 500 the server makes
\* of an exception the handler does not catch.
AckBody == "{\"result\":\"ok\"}"
response_after_write(err) ==
    IF err = "" THEN [status |-> 200, detail |-> AckBody]
    ELSE [status |-> 500, detail |-> "Internal Server Error"]

\* ---------------------------------------------------------------- inputs
AllTokens ==
    { None, Some(<<>>), Some(TokenText),
      Some(<<" ">> \o TokenText \o <<" ">>), Some(TokenText \o <<"x">>) }

AllAuths ==
    { None, Some(SecretText), Some(Bearer \o SecretText),
      Some(<<" ">> \o Bearer \o SecretText \o <<"\t">>),
      Some(SecretText \o <<"x">>),
      Some(<<"b", "e", "a", "r", "e", "r", " ">> \o SecretText) }

\* Well-formed traffic: the credentials of the traffic configurations, and
\* payloads that include the colliding pair.
TrafficTokens == {Some(TokenText)}
TrafficAuths == {Some(Bearer \o SecretText)}
TrafficBodies == {BodyEmptyList, BodySpaced, BodyTwin}

\* ----------------------------------------------------------------- state
\* A request slot.  pc is "idle" before the handler is invoked, "body" while
\* it is suspended in `await request.json()`, "done" once it has responded.
\* ms is the clock reading make_name took (-1 when it took none).
IdleReq ==
    [pc |-> "idle", token |-> None, auth |-> None, body |-> "",
     status |-> 0, detail |-> "", err |-> "", puts |-> 0,
     key |-> <<>>, bytes |-> "", ms |-> -1]

InitWith(configs) ==
    /\ cfg \in configs
    /\ phase = "booting"
    /\ hc = [runs |-> 0, raised |-> FALSE, putKey |-> None, putOk |-> FALSE,
             delKey |-> None, delOk |-> FALSE]
    /\ now = 0
    /\ store = EmptyStore
    /\ dirs = {}
    /\ req = [r \in Slots |-> IdleReq]

\* The startup event: runs startup_write_check once, before serving.
Startup ==
    /\ phase = "booting"
    /\ \E io \in HcIoOf(cfg.STORAGE_BACKEND) :
         LET o == startup_write_check(io)
         IN  /\ hc' = [runs |-> hc.runs + 1, raised |-> o.raised,
                       putKey |-> o.putKey, putOk |-> o.putOk,
                       delKey |-> o.delKey, delOk |-> o.delOk]
             /\ store' = o.store
             /\ dirs' = o.dirs
             /\ phase' = on_startup(o.raised)
    /\ UNCHANGED <<cfg, now, req>>

\* The wall clock advances by a millisecond.
Tick ==
    /\ now < MaxMs
    /\ now' = now + 1
    /\ UNCHANGED <<cfg, phase, hc, store, dirs, req>>

\* input_endpoint up to its await, app.py:171-183, on a request whose token
\* and Authorization header are drawn from tokens and auths.
Authenticate(r, tokens, auths) ==
    /\ phase = "serving"
    /\ req[r].pc = "idle"
    /\ \E token \in tokens, auth \in auths :
         LET seen == [req[r] EXCEPT !.token = token, !.auth = auth]
         IN  req' = [req EXCEPT ![r] =
               IF ~token_ok(token)
               THEN [seen EXCEPT !.pc = "done", !.status = 401, !.detail = "bad token"]
               ELSE IF ~auth_ok(auth)
               THEN [seen EXCEPT !.pc = "done", !.status = 401,
                                 !.detail = "bad authorization"]
               ELSE [seen EXCEPT !.pc = "body"]]
    /\ UNCHANGED <<cfg, phase, hc, now, store, dirs>>

\* input_endpoint from the arrival of the body to its response,
\* app.py:183-193.  The code between two awaits runs without interleaving.
ReceiveBody(r, bodies) ==
    /\ req[r].pc = "body"
    /\ \E body \in bodies, io \in IoOf(cfg.STORAGE_BACKEND) :
         LET parsed == JsonParse(body)
         IN  IF ~payload_ok(parsed)
             THEN /\ req' = [req EXCEPT ![r] =
                       [@ EXCEPT !.pc = "done", !.body = body,
                                 !.status = 400, !.detail = "invalid JSON"]]
                  /\ UNCHANGED <<store, dirs>>
             ELSE LET e == write_request(parsed.value, io)
                      resp == response_after_write(e.err)
                  IN  /\ req' = [req EXCEPT ![r] =
                           [@ EXCEPT !.pc = "done", !.body = body,
                                     !.status = resp.status, !.detail = resp.detail,
                                     !.err = e.err, !.puts = e.puts, !.key = e.key,
                                     !.bytes = e.bytes,
                                     !.ms = IF e.puts > 0 THEN now ELSE -1]]
                      /\ store' = e.store
                      /\ dirs' = e.dirs
    /\ UNCHANGED <<cfg, phase, hc, now>>

\* Concurrent traffic: every slot carries a well-formed request, under the
\* configurations that accept it, with every backend selection.
TrafficConfigs ==
    {c \in Configs : c.TOKEN = Some(TokenText) /\ c.AUTH_SECRET = Some(SecretText)}

Init == InitWith(TrafficConfigs)

Next ==
    \/ Startup
    \/ Tick
    \/ \E r \in Slots : Authenticate(r, TrafficTokens, TrafficAuths)
    \/ \E r \in Slots : ReceiveBody(r, TrafficBodies)

Spec == Init /\ [][Next]_vars

\* One request drawn from every combination of the inputs, under every
\* configuration.
InitAny == InitWith(Configs)

NextAny ==
    \/ Startup
    \/ Tick
    \/ Authenticate(1, AllTokens, AllAuths)
    \/ ReceiveBody(1, AllBodies)

SpecAny == InitAny /\ [][NextAny]_vars

\* ------------------------------------------------------------ properties
Handled(r) == req[r].pc # "idle"
Done(r) == req[r].pc = "done"

\* INGEST_TOKEN is configured (non-empty) and the trimmed token equals it.
TokenPresented(r) ==
    /\ cfg.TOKEN # None
    /\ Len(cfg.TOKEN[1]) > 0
    /\ req[r].token # None
    /\ Strip(req[r].token[1]) = cfg.TOKEN[1]

SecretConfigured == cfg.AUTH_SECRET # None /\ Len(cfg.AUTH_SECRET[1]) > 0

\* The trimmed Authorization header is the secret or "Bearer " + secret.
HeaderPresented(r) ==
    /\ req[r].auth # None
    /\ \/ Strip(req[r].auth[1]) = cfg.AUTH_SECRET[1]
       \/ Strip(req[r].auth[1]) = Bearer \o cfg.AUTH_SECRET[1]

Authenticated(r) ==
    TokenPresented(r) /\ (SecretConfigured => HeaderPresented(r))

\* The request issued no write to the backend.
NoWrite(r) == req[r].puts = 0 /\ req[r].key = <<>> /\ req[r].bytes = ""

\* C1: a request is answered 401 and writes nothing unless INGEST_TOKEN is
\* configured (non-empty) and the trimmed `token` parameter equals it; with
\* INGEST_TOKEN unset or empty every request is denied.
C1_DeniedWithoutToken ==
    \A r \in Slots :
      (Handled(r) /\ ~TokenPresented(r)) =>
        /\ Done(r)
        /\ req[r].status = 401
        /\ NoWrite(r)
        /\ store = EmptyStore

\* An empty INGEST_TOKEN met by an empty token: equal, and denied.
C1_Witness ==
    /\ cfg.TOKEN = Some(<<>>)
    /\ Done(1)
    /\ req[1].token = Some(<<>>)
    /\ req[1].status = 401

\* C2: with AUTH_SECRET configured, a request with a valid token is answered
\* 401 and writes nothing unless its trimmed Authorization header is the
\* secret or "Bearer " + secret; with AUTH_SECRET not configured no header
\* makes the handler deny a request with a valid token.
C2_HeaderExactOrIgnored ==
    \A r \in Slots :
      (Handled(r) /\ TokenPresented(r)) =>
        /\ (SecretConfigured /\ ~HeaderPresented(r)) =>
              (Done(r) /\ req[r].status = 401 /\ NoWrite(r) /\ store = EmptyStore)
        /\ ~SecretConfigured => req[r].status # 401

\* A header that only starts with the secret is refused.
C2_Witness ==
    /\ SecretConfigured
    /\ TokenPresented(1)
    /\ req[1].auth = Some(SecretText \o <<"x">>)
    /\ Done(1)
    /\ req[1].status = 401
    /\ req[1].detail = "bad authorization"

\* The bodies that are not JSON, are JSON but no object, or are an object
\* without the key "locations".
RejectedBodies == {BodyTruncated, BodyArray, BodyNull, BodyNoLocations}

\* C3: an authenticated request whose body is not parseable JSON, is JSON but
\* not an object, or is an object without `locations` is answered 400 and
\* writes nothing.
C3_InvalidBodyRejected ==
    \A r \in Slots :
      (Done(r) /\ Authenticated(r) /\ req[r].body \in RejectedBodies) =>
        /\ req[r].status = 400
        /\ NoWrite(r)
        /\ store = EmptyStore

\* An object without "locations", from an authenticated caller.
C3_Witness ==
    /\ Done(1)
    /\ Authenticated(1)
    /\ req[1].body = BodyNoLocations
    /\ req[1].status = 400

\* The bodies that are a JSON object containing "locations".
AcceptableBodies == {BodyEmptyList, BodySpaced, BodyTwin, BodySurrogate}

\* The exceptions that storage I/O raised.
IoErrors == {"OSError:mkdir", "OSError:open", "OSError:write", "ClientError:put"}

\* requests/<identifier>, under S3_PREFIX in s3 mode when it is set.
UnderRequests(key) ==
    IF cfg.STORAGE_BACKEND = "s3" /\ cfg.S3_PREFIX # ""
    THEN Len(key) = 3 /\ key[1] = cfg.S3_PREFIX /\ key[2] = "requests"
    ELSE Len(key) = 2 /\ key[1] = "requests"

\* C4: an authenticated request whose body is a JSON object containing
\* `locations` issues exactly one write, of the compact serialization of the
\* parsed payload, under requests/<identifier>.  (Read in the code's favour:
\* a request on which storage I/O itself raised is left aside.)
C4_ExactlyOneWrite ==
    \A r \in Slots :
      (Done(r) /\ Authenticated(r) /\ req[r].body \in AcceptableBodies
         /\ req[r].err \notin IoErrors) =>
        /\ req[r].puts = 1
        /\ req[r].bytes = compact_json(JsonParse(req[r].body).value)
        /\ UnderRequests(req[r].key)

\* C5: when the backend write of an authenticated, valid request fails, the
\* request ends with status 500 and without the acknowledgment, and no
\* handler invocation attempts the write more than once.
C5_FailedWriteIs500 ==
    \A r \in Slots :
      /\ req[r].puts <= 1
      /\ (Done(r) /\ req[r].err # "") =>
            /\ req[r].status = 500
            /\ req[r].detail # AckBody

\* A put_object that failed, answered 500.
C5_Witness ==
    \E r \in Slots :
      /\ Done(r)
      /\ req[r].puts = 1
      /\ req[r].err = "ClientError:put"
      /\ req[r].status = 500

Accepted == {r \in Slots : Done(r) /\ req[r].status = 200}

\* C6: a request is answered 200 only after its own write succeeded, and from
\* then on the store holds a record whose bytes are that request's compact
\* payload, whatever the other requests do.
C6_AckedRecordKept ==
    \A r \in Accepted :
      /\ req[r].puts = 1
      /\ req[r].err = ""
      /\ \E k \in DOMAIN store :
           store[k] = compact_json(JsonParse(req[r].body).value)

\* The startup check failed: the probe write failed, or s3 is selected with
\* no bucket.
ProbeWriteFailed == hc.putKey # None /\ ~hc.putOk
NoBucket ==
    cfg.STORAGE_BACKEND = "s3" /\ (cfg.S3_BUCKET = None \/ cfg.S3_BUCKET[1] = "")

\* C7: the startup check runs exactly once, before any request is handled;
\* when it fails the process is aborted, never serves, and no request is ever
\* authenticated, validated or persisted.
C7_CheckedOnceBeforeServing ==
    /\ hc.runs <= 1
    /\ (hc.runs = 0) <=> (phase = "booting")
    /\ (\E r \in Slots : Handled(r)) =>
          (phase = "serving" /\ hc.runs = 1 /\ ~hc.raised)
    /\ (hc.runs = 1 /\ (hc.raised \/ ProbeWriteFailed \/ NoBucket)) =>
          /\ phase = "aborted"
          /\ \A r \in Slots : req[r] = IdleReq

\* s3 selected with no bucket: aborted, and still so after the clock has run
\* to its end with no request handled.
C7_Witness ==
    /\ NoBucket
    /\ hc.runs = 1
    /\ phase = "aborted"
    /\ now = MaxMs

\* C8: in the startup check of either backend, a failure to remove the probe
\* after its write succeeded is not propagated and startup completes; only a
\* failure of the probe write aborts startup.
C8_RemovalFailureNotFatal ==
    /\ (hc.runs = 1 /\ hc.putOk /\ hc.delKey # None /\ ~hc.delOk) =>
          (~hc.raised /\ phase = "serving")
    /\ phase = "aborted" => ~hc.putOk

\* A key of the record collection: its last directory is requests/.
IsRecordKey(k) == Len(k) >= 2 /\ k[Len(k) - 1] = "requests"

\* The records of the store that are an accepted request's.
AcceptedRecords ==
    {k \in DOMAIN store : IsRecordKey(k) /\ \E r \in Accepted : req[r].key = k}

\* C9: the store holds as many distinct records as requests were accepted,
\* and two accepted requests of one millisecond with different content have
\* different identifiers.
C9_OneRecordPerAccepted ==
    /\ Cardinality(AcceptedRecords) = Cardinality(Accepted)
    /\ \A r1, r2 \in Accepted :
         (r1 # r2 /\ req[r1].ms = req[r2].ms /\ req[r1].bytes # req[r2].bytes) =>
           req[r1].key # req[r2].key

\* The millisecond and the digest prefix a request was named from.
NamedFrom(r) == <<req[r].ms, Sha256Hex8(req[r].bytes)>>

\* C9 as amended: every accepted request has a record under its identifier;
\* two accepted requests share an identifier exactly when they were named in
\* the same millisecond from payloads whose SHA-256 digests agree in their
\* first 8 hex digits; so the accepted requests have as many distinct records
\* as distinct (millisecond, digest prefix) pairs, at most one each.
C9_OneRecordPerName ==
    /\ \A r \in Accepted : req[r].key \in DOMAIN store /\ IsRecordKey(req[r].key)
    /\ \A r1, r2 \in Accepted :
         (req[r1].key = req[r2].key) <=> (NamedFrom(r1) = NamedFrom(r2))
    /\ Cardinality(AcceptedRecords) = Cardinality({NamedFrom(r) : r \in Accepted})
    /\ Cardinality(AcceptedRecords) <= Cardinality(Accepted)

\* Two accepted requests of one millisecond with different content and the
\* same identifier, next to none: the digests' prefixes collide.
C9_Witness ==
    \E r1, r2 \in Accepted :
      /\ r1 # r2
      /\ req[r1].ms = req[r2].ms
      /\ req[r1].bytes # req[r2].bytes
      /\ req[r1].key = req[r2].key

\* C10: in s3 mode the startup check puts its probe at <prefix>/healthcheck.txt
\* (healthcheck.txt with no prefix), outside requests/, and deletes that same
\* key; the check writes and deletes no key under requests/.
C10_ProbeOutsideRequests ==
    (cfg.STORAGE_BACKEND = "s3" /\ hc.putKey # None) =>
      /\ hc.putKey[1] = (IF cfg.S3_PREFIX # "" THEN <<cfg.S3_PREFIX>> ELSE <<>>)
                          \o <<"healthcheck.txt">>
      /\ ~IsRecordKey(hc.putKey[1])
      /\ hc.delKey # None => (hc.delKey = hc.putKey /\ ~IsRecordKey(hc.delKey[1]))

====
